---------------------------- MODULE Spec2Model ----------------------------
(***************************************************************************)
(* Model of the dedicated_disk_partition reconciliation engine and of the  *)
(* standalone filesystem_sync module of the cis_hardening collection.      *)
(*                                                                         *)
(* The host is one record, sys: the target block device, the LVM chain on  *)
(* it, /etc/fstab, the source directory and the temporary mount point.     *)
(* One invocation of a module is one action: main / run_module is a pure   *)
(* operator from (sys, parameters, check_mode, fault) to the host after    *)
(* the run and the result handed to the caller.  The external commands a   *)
(* run invokes are recorded, in order, in the result (cmds).               *)
(*                                                                         *)
(* The kernel-module editor, configure_filesystem_kernel_modules, is       *)
(* modelled at the end of the module with a specification of its own,      *)
(* SpecKm, over the same variables.                                        *)
(***************************************************************************)
EXTENDS Integers, Sequences, FiniteSets, TLC

VARIABLES sys, params, last, tick

vars == <<sys, params, last, tick>>

(***************************************************************************)
(* The path parameter.  A path string is its text up to the last character *)
(* that is no slash (stem) and the number of slashes that follow it        *)
(* (trail); rstrip('/') drops the trailing slashes.  path is self.path of  *)
(* the run, the vg and lv parameters stay fixed.                           *)
(***************************************************************************)
rstrip(raw) == raw.stem

path == rstrip(params.path)

lv_device == "/dev/vg/lv"
lv_mapper == "/dev/mapper/vg-lv"
FSTAB_OPTS == "defaults"

(***************************************************************************)
(* Bounds of the model.                                                    *)
(***************************************************************************)
MaxFstabLines == 2

(***************************************************************************)
(* size_to_bytes.  A size string is a number and an optional unit letter   *)
(* ("" when absent); the regular expression accepts only B K M G T (after  *)
(* upper-casing), anything else raises ValueError.                         *)
(***************************************************************************)
SizeUnits == {"B", "K", "M", "G", "T"}

size_valid(size_str) == size_str.unit = "" \/ size_str.unit \in SizeUnits

unit_multiplier(unit) ==
    CASE unit = "B" -> 1
      [] unit = "K" -> 1024
      [] unit = "M" -> 1024 * 1024
      [] unit = "G" -> 1024 * 1024 * 1024
      [] unit = "T" -> 1024 * 1024 * 1024 * 1024
      [] OTHER -> 1

size_to_bytes(size_str) == size_str.num * unit_multiplier(size_str.unit)

(***************************************************************************)
(* What LVM makes of the same -L argument: no unit means MiB, S is a       *)
(* 512-byte sector, and the size is rounded up to whole extents.           *)
(***************************************************************************)
MiB == 1024 * 1024
ExtentBytes == 4 * MiB

lvm_bytes(size_str) ==
    LET raw == CASE size_str.unit = "" -> size_str.num * MiB
                 [] size_str.unit = "S" -> size_str.num * 512
                 [] OTHER -> size_str.num * unit_multiplier(size_str.unit)
    IN ((raw + ExtentBytes - 1) \div ExtentBytes) * ExtentBytes

(***************************************************************************)
(* /etc/fstab.  A line is its number of leading "# " prefixes (c) and its  *)
(* whitespace-separated fields (f); a field is a sequence of pieces, so    *)
(* that two strings written without a separator between them form one      *)
(* field.  eof_nl tells whether the last line ends with a newline.         *)
(***************************************************************************)
Tok(s) == <<s>>

Entry(dev, mp, fstype, pass) ==
    [c |-> 0,
     f |-> <<Tok(dev), Tok(mp), Tok(fstype), Tok(FSTAB_OPTS), Tok("0"), Tok(pass)>>]

CommentLine == [c |-> 1, f |-> <<Tok("static"), Tok("file"), Tok("system")>>]
ShortLine == [c |-> 0, f |-> <<Tok("tmpfs"), Tok(path)>>]
RootEntry == Entry("UUID=root", "/", "ext4", "1")
StaleEntry == Entry("UUID=old", path, "ext4", "2")
StaleEntry2 == Entry("/dev/sda3", path, "xfs", "2")
DeviceEntry == Entry(lv_device, path, "ext4", "0")
MapperEntry == Entry(lv_mapper, path, "ext4", "0")

IsComment(line) == line.c > 0

\* fields[1] != self.path, fields[0] in (lv_device, lv_mapper), on the parsed line
IsForPath(line) == ~IsComment(line) /\ Len(line.f) >= 6 /\ line.f[2] = Tok(path)
IsCorrect(line) == IsForPath(line) /\ line.f[1] \in {Tok(lv_device), Tok(lv_mapper)}
IsPrevious(line) == IsForPath(line) /\ ~IsCorrect(line)

check_fstab_entry(fstab) ==
    [has_correct |-> \E i \in 1..Len(fstab.lines) : IsCorrect(fstab.lines[i]),
     previous_lines |-> {i \in 1..Len(fstab.lines) : IsPrevious(fstab.lines[i])},
     lines |-> fstab.lines]

\* f.writelines(lines + [new_line]): the strings are written one after the
\* other, so a last line without a newline runs into the appended one.
Glue(line, fields) ==
    IF Len(line.f) = 0
    THEN [c |-> line.c, f |-> fields]
    ELSE [c |-> line.c,
          f |-> SubSeq(line.f, 1, Len(line.f) - 1)
                \o <<line.f[Len(line.f)] \o fields[1]>>
                \o Tail(fields)]

AppendLine(fstab, fields) ==
    IF Len(fstab.lines) > 0 /\ ~fstab.eof_nl
    THEN [lines |-> SubSeq(fstab.lines, 1, Len(fstab.lines) - 1)
                    \o <<Glue(fstab.lines[Len(fstab.lines)], fields)>>,
          eof_nl |-> TRUE]
    ELSE [lines |-> Append(fstab.lines, [c |-> 0, f |-> fields]), eof_nl |-> TRUE]

CommentOut(fstab, idxs) ==
    [fstab EXCEPT !.lines =
        [i \in 1..Len(fstab.lines) |->
            IF i \in idxs THEN [fstab.lines[i] EXCEPT !.c = @ + 1] ELSE fstab.lines[i]]]

update_fstab(fstab, current_fstype) ==
    LET e == check_fstab_entry(fstab)
        commented == CommentOut(fstab, e.previous_lines)
        new_line == <<Tok(lv_device), Tok(path), Tok(current_fstype),
                      Tok(FSTAB_OPTS), Tok("0"), Tok("0")>>
        changed == e.previous_lines # {} \/ ~e.has_correct
    IN [fstab |-> IF e.has_correct THEN commented ELSE AppendLine(commented, new_line),
        changed |-> changed]

(***************************************************************************)
(* The probes of DedicatedDiskPartition.  sys.pv is what                   *)
(* `pvs -o vg_name <device>` answers: "none" (exit code non-zero: not a    *)
(* physical volume), "orphan" (empty output), "target" (the vg parameter)  *)
(* or "other" (another group).                                             *)
(***************************************************************************)
check_block_device(s) == s.is_block

\* Mutant: the test `vg_name and` is dropped, so an orphan physical volume
\* counts as belonging to another group.
check_device_in_use_OrphanInUse(s) ==
    IF s.pv # "none"
    THEN s.pv # "target"
    ELSE IF s.blkid_type THEN TRUE
    ELSE IF ~s.lsblk_ok THEN TRUE
    ELSE IF s.mounted THEN TRUE
    ELSE IF s.children THEN TRUE
    ELSE FALSE

check_device_in_use(s) ==
    IF s.pv # "none"
    THEN s.pv = "other"
    ELSE IF s.blkid_type THEN TRUE
    ELSE IF ~s.lsblk_ok THEN TRUE
    ELSE IF s.mounted THEN TRUE
    ELSE IF s.children THEN TRUE
    ELSE FALSE

check_vg_exists(s) == s.vg_exists

check_lv_exists(s) == s.lv_exists

get_fs_type(s) == IF s.lv_exists THEN s.fs_type ELSE ""

validate_current_state(s) ==
    LET e == check_fstab_entry(s.fstab)
    IN [vg_exists |-> check_vg_exists(s),
        lv_exists |-> check_lv_exists(s),
        fs_type |-> get_fs_type(s),
        fstab_correct |-> IF check_lv_exists(s) THEN e.has_correct ELSE FALSE,
        fstab_previous_entries |->
            IF check_lv_exists(s) THEN Cardinality(e.previous_lines) ELSE 0]

(***************************************************************************)
(* External commands.  MutatingCommands are the commands and file          *)
(* operations that change the host; Effect is what a successful one does.  *)
(* A run is given one fault: the command of that name exits non-zero (and  *)
(* changes nothing) when the run invokes it.                               *)
(***************************************************************************)
MutatingCommands ==
    {"pvremove", "pvcreate", "vgcreate", "lvcreate", "lvextend", "mkfs",
     "mount", "rsync", "umount", "makedirs_path", "makedirs_temp_mnt",
     "rmdir_temp_mnt", "write_fstab"}

Faults ==
    {"none", "pvremove", "pvcreate", "vgcreate", "lvs_size", "lvcreate", "lvextend",
     "mkfs", "mount", "rsync"}

Effect(cmd, s, p) ==
    CASE cmd = "pvremove" -> [s EXCEPT !.pv = "none", !.blkid_type = FALSE]
      [] cmd = "pvcreate" -> [s EXCEPT !.pv = "orphan", !.blkid_type = TRUE]
      [] cmd = "vgcreate" ->
            [s EXCEPT !.vg_exists = TRUE, !.pv = "target", !.blkid_type = TRUE]
      [] cmd = "lvcreate" ->
            [s EXCEPT !.lv_exists = TRUE, !.lv_size = lvm_bytes(p.size),
                      !.fs_type = "", !.lv_data = FALSE]
      [] cmd = "lvextend" -> [s EXCEPT !.lv_size = lvm_bytes(p.size)]
      [] cmd = "mkfs" -> [s EXCEPT !.fs_type = p.fstype, !.lv_data = FALSE]
      [] cmd = "mount" -> [s EXCEPT !.tmp = "mounted"]
      [] cmd = "rsync" -> [s EXCEPT !.lv_data = TRUE]
      [] cmd = "umount" -> [s EXCEPT !.tmp = IF @ = "mounted" THEN "dir" ELSE @]
      [] cmd = "makedirs_path" -> [s EXCEPT !.src = "empty", !.src_mode = "0750"]
      [] cmd = "makedirs_temp_mnt" -> [s EXCEPT !.tmp = IF @ = "absent" THEN "dir" ELSE @]
      [] cmd = "rmdir_temp_mnt" -> [s EXCEPT !.tmp = "absent"]
      [] OTHER -> s

\* What makes a command exit non-zero: the run's fault, or, for mount, a
\* logical volume that carries no filesystem.
CommandFails(cmd, s, fault) ==
    \/ fault = cmd
    \/ cmd = "mount" /\ (~s.lv_exists \/ s.fs_type = "")

\* Mutant: mkfs is run without check_rc, so its failure is not noticed.
Exec_MkfsUnchecked(m, cmd, p, fault) ==
    IF m.failed # "" THEN m
    ELSE IF CommandFails(cmd, m.sys, fault)
    THEN [m EXCEPT !.cmds = Append(@, cmd),
                   !.failed = IF cmd = "mkfs" THEN "" ELSE cmd]
    ELSE [m EXCEPT !.cmds = Append(@, cmd), !.sys = Effect(cmd, @, p)]

\* The run context m: the host so far, the failure that ended the run (""
\* while it is running), the commands invoked, and main's local variables.
Exec(m, cmd, p, fault) ==
    IF m.failed # "" THEN m
    ELSE IF CommandFails(cmd, m.sys, fault)
    THEN [m EXCEPT !.cmds = Append(@, cmd), !.failed = cmd]
    ELSE [m EXCEPT !.cmds = Append(@, cmd), !.sys = Effect(cmd, @, p)]

fail_json(m, msg) == IF m.failed # "" THEN m ELSE [m EXCEPT !.failed = msg]

Probe(m, name) == IF m.failed # "" THEN m ELSE [m EXCEPT !.cmds = Append(@, name)]

Start(s) ==
    [sys |-> s, failed |-> "", cmds |-> <<>>,
     state |-> validate_current_state(s),
     changed |-> FALSE, change_msgs |-> <<>>, would_change_msgs |-> <<>>,
     vg_changed |-> FALSE, lv_created |-> FALSE, fs_created |-> FALSE,
     current_fstype |-> "", fstab_changed |-> FALSE, sync_changed |-> FALSE,
     rsync_cmd |-> <<>>]

(***************************************************************************)
(* DedicatedDiskPartition.ensure_pv and ensure_vg.                         *)
(***************************************************************************)
ensure_pv(m, p, fault) ==
    IF m.sys.pv # "none" THEN m ELSE Exec(m, "pvcreate", p, fault)

\* Mutant: the volume group is created without asking whether it exists.
ensure_vg_NoProbe(m, p, fault) ==
    LET m1 == IF m.sys.pv = "orphan" THEN Exec(m, "pvremove", p, fault) ELSE m
        m2 == IF m1.failed # "" THEN m1 ELSE ensure_pv(m1, p, fault)
        m3 == Exec(m2, "vgcreate", p, fault)
    IN IF m3.failed # "" THEN m3 ELSE [m3 EXCEPT !.vg_changed = TRUE]

ensure_vg(m, p, fault) ==
    IF ~check_vg_exists(m.sys)
    THEN LET m1 == IF m.sys.pv = "orphan" THEN Exec(m, "pvremove", p, fault) ELSE m
             m2 == IF m1.failed # "" THEN m1 ELSE ensure_pv(m1, p, fault)
             m3 == Exec(m2, "vgcreate", p, fault)
         IN IF m3.failed # "" THEN m3 ELSE [m3 EXCEPT !.vg_changed = TRUE]
    ELSE IF m.sys.pv # "target"
         THEN fail_json(m, "VG exists but specified device is not part of it")
         ELSE m

(***************************************************************************)
(* DedicatedDiskPartition.sync_data.  The finally block runs on every way  *)
(* out of the try block, fail_json included.                               *)
(***************************************************************************)
\* Mutant: the cleanup follows the try block instead of being its finally
\* block, so it is skipped when fail_json leaves the block.
ReleaseTempMnt_NotOnFailure(m, p) ==
    IF m.failed # "" THEN m
    ELSE LET u == [m EXCEPT !.cmds = Append(@, "umount"),
                            !.sys = Effect("umount", @, p)]
         IN IF u.sys.tmp # "absent"
            THEN [u EXCEPT !.cmds = Append(@, "rmdir_temp_mnt"),
                           !.sys = Effect("rmdir_temp_mnt", @, p)]
            ELSE u

ReleaseTempMnt(m, p) ==
    LET u == [m EXCEPT !.cmds = Append(@, "umount"), !.sys = Effect("umount", @, p)]
    IN IF u.sys.tmp # "absent"
       THEN [u EXCEPT !.cmds = Append(@, "rmdir_temp_mnt"),
                      !.sys = Effect("rmdir_temp_mnt", @, p)]
       ELSE u

\* The --exclude arguments of the rsync command line, in order.
default_excludes_map(stem) ==
    CASE stem = "/var" -> <<"log/*", "tmp/*">>
      [] stem = "/var/log" -> <<"audit/*">>
      [] OTHER -> <<>>

\* Mutant: the list is tested for truth, so an empty list counts as absent.
active_excludes_Truthy(excludes, default_excludes) ==
    IF excludes.given /\ excludes.list # <<>> THEN excludes.list ELSE default_excludes

\* The excludes parameter is None (given = FALSE) or a list.
active_excludes(excludes, default_excludes) ==
    IF excludes.given THEN excludes.list ELSE default_excludes

Rsync(m, p, fault, always_excludes, default_excludes) ==
    IF m.failed # "" THEN m
    ELSE [Exec(m, "rsync", p, fault) EXCEPT
            !.rsync_cmd = always_excludes
                          \o active_excludes(p.excludes, default_excludes)]

\* Mutant: the test for an empty source directory is missing.
sync_data_NoEmptyTest(m, p, fault, default_excludes) ==
    IF m.sys.src = "missing"
    THEN LET d == Exec(m, "makedirs_path", p, fault)
         IN [d EXCEPT !.sync_changed = TRUE,
                      !.change_msgs = Append(@, "created source directory")]
    ELSE LET d == Exec(m, "makedirs_temp_mnt", p, fault)
             mnt == Exec(d, "mount", p, fault)
             rs == Rsync(mnt, p, fault, <<"lost+found/">>, default_excludes)
             fin == ReleaseTempMnt(rs, p)
         IN IF fin.failed # "" THEN fin
            ELSE [fin EXCEPT !.sync_changed = TRUE,
                             !.change_msgs = Append(@, "synced data")]

sync_data(m, p, fault, default_excludes) ==
    IF m.sys.src = "missing"
    THEN LET d == Exec(m, "makedirs_path", p, fault)
         IN [d EXCEPT !.sync_changed = TRUE,
                      !.change_msgs = Append(@, "created source directory")]
    ELSE IF m.sys.src = "empty"
    THEN m
    ELSE LET d == Exec(m, "makedirs_temp_mnt", p, fault)
             mnt == Exec(d, "mount", p, fault)
             rs == Rsync(mnt, p, fault, <<"lost+found/">>, default_excludes)
             fin == ReleaseTempMnt(rs, p)
         IN IF fin.failed # "" THEN fin
            ELSE [fin EXCEPT !.sync_changed = TRUE,
                             !.change_msgs = Append(@, "synced data")]

(***************************************************************************)
(* The stages of main, in the order of the code.  Each takes the run       *)
(* context and returns it; a stage after a failure does nothing.           *)
(***************************************************************************)
StageValidate(m) ==
    LET b == Probe(m, "check_block_device")
    IN IF ~check_block_device(b.sys)
       THEN fail_json(b, "not a valid block device")
       ELSE LET u == Probe(b, "check_device_in_use")
            IN IF check_device_in_use(u.sys)
               THEN fail_json(u, "already in use or part of another configuration")
               ELSE u

StageVg(m, p, check, fault) ==
    IF m.failed # "" THEN m
    ELSE IF check
    THEN IF ~m.state.vg_exists
         THEN [m EXCEPT !.vg_changed = TRUE, !.changed = TRUE,
                        !.would_change_msgs = Append(@, "would ensure VG and PV")]
         ELSE m
    ELSE LET r == ensure_vg(m, p, fault)
         IN IF r.failed # "" THEN r
            ELSE IF r.vg_changed
            THEN [r EXCEPT !.changed = TRUE, !.change_msgs = Append(@, "created VG")]
            ELSE r

\* Mutant: the check_mode test is dropped, so a dry-run creates the volume.
StageLv_NoCheckMode(m, p, check, fault) ==
    IF m.failed # "" \/ m.state.lv_exists THEN m
    ELSE LET r == Exec(m, "lvcreate", p, fault)
         IN IF r.failed # "" THEN r
            ELSE [r EXCEPT !.lv_created = TRUE, !.changed = TRUE,
                           !.change_msgs = Append(@, "created LV")]

StageLv(m, p, check, fault) ==
    IF m.failed # "" \/ m.state.lv_exists THEN m
    ELSE IF check
    THEN [m EXCEPT !.lv_created = TRUE, !.changed = TRUE,
                   !.would_change_msgs = Append(@, "would create LV")]
    ELSE LET r == Exec(m, "lvcreate", p, fault)
         IN IF r.failed # "" THEN r
            ELSE [r EXCEPT !.lv_created = TRUE, !.changed = TRUE,
                           !.change_msgs = Append(@, "created LV")]

\* Mutant: any difference of the sizes triggers the resize.
NeedsResize_AnyDifference(requested_bytes, current_bytes) ==
    requested_bytes # current_bytes

NeedsResize(requested_bytes, current_bytes) == requested_bytes > current_bytes

StageResize(m, p, check, fault) ==
    IF m.failed # "" \/ ~m.state.lv_exists THEN m
    ELSE IF ~size_valid(p.size) THEN fail_json(m, "Size comparison failed")
    ELSE LET q == Exec(m, "lvs_size", p, fault)
         IN IF q.failed # "" THEN q
            ELSE IF ~NeedsResize(size_to_bytes(p.size), q.sys.lv_size) THEN q
            ELSE IF check
            THEN [q EXCEPT !.changed = TRUE,
                           !.would_change_msgs =
                               Append(@, "would resize LV and filesystem")]
            ELSE LET r == Exec(q, "lvextend", p, fault)
                 IN IF r.failed # "" THEN r
                    ELSE [r EXCEPT !.changed = TRUE,
                                   !.change_msgs = Append(@, "resized LV and filesystem")]

\* Mutant: the filesystem is made again when the requested type differs from
\* the detected one.
StageFs_ReformatOnMismatch(m, p, check, fault) ==
    IF m.failed # "" THEN m
    ELSE LET c == [m EXCEPT !.current_fstype = m.state.fs_type]
         IN IF ~(c.lv_created \/ c.current_fstype # p.fstype) THEN c
            ELSE IF check
            THEN [c EXCEPT !.fs_created = TRUE, !.current_fstype = p.fstype,
                           !.changed = TRUE,
                           !.would_change_msgs = Append(@, "would create filesystem")]
            ELSE LET r == Exec(c, "mkfs", p, fault)
                 IN IF r.failed # "" THEN r
                    ELSE [r EXCEPT !.fs_created = TRUE, !.current_fstype = p.fstype,
                                   !.changed = TRUE,
                                   !.change_msgs = Append(@, "created filesystem")]

StageFs(m, p, check, fault) ==
    IF m.failed # "" THEN m
    ELSE LET c == [m EXCEPT !.current_fstype = m.state.fs_type]
         IN IF ~(c.lv_created \/ c.current_fstype = "") THEN c
            ELSE IF check
            THEN [c EXCEPT !.fs_created = TRUE, !.current_fstype = p.fstype,
                           !.changed = TRUE,
                           !.would_change_msgs = Append(@, "would create filesystem")]
            ELSE LET r == Exec(c, "mkfs", p, fault)
                 IN IF r.failed # "" THEN r
                    ELSE [r EXCEPT !.fs_created = TRUE, !.current_fstype = p.fstype,
                                   !.changed = TRUE,
                                   !.change_msgs = Append(@, "created filesystem")]

StageFstab(m, p, check, fault) ==
    IF m.failed # "" \/ ~(m.state.lv_exists \/ m.lv_created) THEN m
    ELSE LET e == check_fstab_entry(m.sys.fstab)
             previous_entries == Cardinality(e.previous_lines)
         IN IF ~(previous_entries > 0 \/ ~e.has_correct) THEN m
            ELSE IF check
            THEN [m EXCEPT !.fstab_changed = TRUE, !.changed = TRUE,
                           !.would_change_msgs = Append(@, "would update fstab")]
            ELSE LET u == update_fstab(m.sys.fstab, m.current_fstype)
                     msgs1 == IF previous_entries > 0
                              THEN <<"commented out previous fstab entries">>
                              ELSE <<>>
                     msgs2 == IF ~e.has_correct
                              THEN <<"added new fstab entry">> ELSE <<>>
                 IN [m EXCEPT !.sys.fstab = u.fstab,
                              !.cmds = IF u.changed THEN Append(@, "write_fstab") ELSE @,
                              !.fstab_changed = TRUE, !.changed = TRUE,
                              !.change_msgs = @ \o msgs1 \o msgs2]

\* Mutant: the data is synchronised whenever sync is enabled, whether or not
\* the filesystem was created in this run.
StageSync_EveryRun(m, p, check, fault) ==
    IF m.failed # "" \/ ~p.sync THEN m
    ELSE IF check
    THEN IF m.sys.src = "missing" \/ m.sys.src = "data"
         THEN [m EXCEPT !.sync_changed = TRUE, !.changed = TRUE,
                        !.would_change_msgs = Append(@, "would sync data")]
         ELSE m
    ELSE LET r == sync_data(m, p, fault, default_excludes_map(path))
         IN IF r.failed # "" THEN r
            ELSE [r EXCEPT !.changed = @ \/ r.sync_changed]

StageSync(m, p, check, fault) ==
    IF m.failed # "" \/ ~(p.sync /\ m.fs_created) THEN m
    ELSE IF check
    THEN IF m.sys.src = "missing" \/ m.sys.src = "data"
         THEN [m EXCEPT !.sync_changed = TRUE, !.changed = TRUE,
                        !.would_change_msgs = Append(@, "would sync data")]
         ELSE m
    ELSE LET r == sync_data(m, p, fault, default_excludes_map(path))
         IN IF r.failed # "" THEN r
            ELSE [r EXCEPT !.changed = @ \/ r.sync_changed]

\* What the caller gets: exit_json's fields, or the failure; with it the
\* parameters, the snapshot taken at entry and the commands invoked.
NoRun ==
    [module |-> "none", check_mode |-> FALSE, params |-> <<>>, failed |-> "",
     changed |-> FALSE, msgs |-> <<>>, reboot_required |-> FALSE,
     state |-> <<>>, validation_results |-> <<>>, cmds |-> <<>>,
     rsync_cmd |-> <<>>, fault |-> "none"]

\* Mutant: every change, a resize included, asks for a reboot.
Report_RebootOnAnyChange(m, p, check) ==
    LET reboot == m.changed \/ m.vg_changed \/ m.lv_created \/ m.fs_created
                  \/ m.fstab_changed \/ m.sync_changed
        base == [NoRun EXCEPT !.module = "dedicated_disk_partition",
                              !.check_mode = check, !.params = p,
                              !.state = m.state, !.cmds = m.cmds,
                              !.rsync_cmd = m.rsync_cmd]
    IN IF m.failed # ""
       THEN [base EXCEPT !.failed = m.failed]
       ELSE IF check
       THEN LET changed == Len(m.would_change_msgs) > 0
            IN [base EXCEPT
                  !.changed = changed,
                  !.msgs = m.change_msgs \o m.would_change_msgs,
                  !.reboot_required =
                      IF changed
                      THEN ~(m.would_change_msgs = <<"would resize LV and filesystem">>)
                      ELSE reboot,
                  !.validation_results = m.state]
       ELSE [base EXCEPT
               !.changed = m.changed,
               !.msgs = IF m.changed THEN m.change_msgs ELSE <<>>,
               !.reboot_required = reboot,
               !.validation_results = validate_current_state(m.sys)]

Report(m, p, check) ==
    LET reboot == m.vg_changed \/ m.lv_created \/ m.fs_created
                  \/ m.fstab_changed \/ m.sync_changed
        base == [NoRun EXCEPT !.module = "dedicated_disk_partition",
                              !.check_mode = check, !.params = p,
                              !.state = m.state, !.cmds = m.cmds,
                              !.rsync_cmd = m.rsync_cmd]
    IN IF m.failed # ""
       THEN [base EXCEPT !.failed = m.failed]
       ELSE IF check
       THEN LET changed == Len(m.would_change_msgs) > 0
            IN [base EXCEPT
                  !.changed = changed,
                  !.msgs = m.change_msgs \o m.would_change_msgs,
                  !.reboot_required =
                      IF changed
                      THEN ~(m.would_change_msgs = <<"would resize LV and filesystem">>)
                      ELSE reboot,
                  !.validation_results = m.state]
       ELSE [base EXCEPT
               !.changed = m.changed,
               !.msgs = IF m.changed THEN m.change_msgs ELSE <<>>,
               !.reboot_required = reboot,
               !.validation_results = validate_current_state(m.sys)]

\* Mutant: the device is validated after the volume-group stage.
main_ValidateLate(s, p, check, fault) ==
    LET vg == StageVg(Start(s), p, check, fault)
        v == IF vg.failed # "" THEN vg ELSE StageValidate(vg)
        lv == StageLv(v, p, check, fault)
        sz == StageResize(lv, p, check, fault)
        fs == StageFs(sz, p, check, fault)
        ft == StageFstab(fs, p, check, fault)
        sy == StageSync(ft, p, check, fault)
    IN [sys |-> sy.sys, res |-> Report(sy, p, check)]

main(s, p, check, fault) ==
    LET v == StageValidate(Start(s))
        vg == StageVg(v, p, check, fault)
        lv == StageLv(vg, p, check, fault)
        sz == StageResize(lv, p, check, fault)
        fs == StageFs(sz, p, check, fault)
        ft == StageFstab(fs, p, check, fault)
        sy == StageSync(ft, p, check, fault)
    IN [sys |-> sy.sys, res |-> Report(sy, p, check)]

(***************************************************************************)
(* filesystem_sync.run_module, with device = the logical volume.           *)
(***************************************************************************)
run_module(s, p, check, fault) ==
    LET m == Start(s)
        base == [NoRun EXCEPT !.module = "filesystem_sync", !.check_mode = check,
                              !.params = p, !.state = m.state]
    IN IF s.src = "missing"
       THEN LET d == IF check THEN m ELSE Exec(m, "makedirs_path", p, fault)
            IN [sys |-> d.sys,
                res |-> [base EXCEPT !.changed = TRUE, !.cmds = d.cmds,
                                     !.msgs = <<"Source was missing; created directory.">>]]
       ELSE IF s.src = "empty"
       THEN [sys |-> s,
             res |-> [base EXCEPT !.msgs = <<"Source is empty; no data to sync.">>]]
       ELSE IF check
       THEN [sys |-> s,
             res |-> [base EXCEPT !.changed = TRUE,
                                  !.msgs = <<"Changes would be applied (check mode).">>]]
       ELSE LET d == Exec(m, "makedirs_temp_mnt", p, fault)
                mnt == Exec(d, "mount", p, fault)
                rs == Rsync(mnt, p, fault, <<"lost+found">>, default_excludes_map(path))
                fin == ReleaseTempMnt(rs, p)
            IN [sys |-> fin.sys,
                res |-> IF fin.failed # ""
                        THEN [base EXCEPT !.failed = fin.failed, !.cmds = fin.cmds,
                                          !.rsync_cmd = fin.rsync_cmd]
                        ELSE [base EXCEPT !.changed = TRUE, !.cmds = fin.cmds,
                                          !.rsync_cmd = fin.rsync_cmd,
                                          !.msgs = <<"Successfully synced">>]]

(***************************************************************************)
(* Initial hosts.                                                          *)
(***************************************************************************)
Shape(is_block, pv, blkid_type, lsblk_ok, mounted, children) ==
    [is_block |-> is_block, pv |-> pv, blkid_type |-> blkid_type,
     lsblk_ok |-> lsblk_ok, mounted |-> mounted, children |-> children]

DeviceShapes ==
    {Shape(FALSE, "none", FALSE, FALSE, FALSE, FALSE),   \* no block device
     Shape(TRUE, "none", FALSE, TRUE, FALSE, FALSE),     \* blank disk
     Shape(TRUE, "none", TRUE, TRUE, FALSE, FALSE),      \* carries a filesystem
     Shape(TRUE, "none", FALSE, FALSE, FALSE, FALSE),    \* lsblk cannot list it
     Shape(TRUE, "none", FALSE, TRUE, TRUE, FALSE),      \* mounted
     Shape(TRUE, "none", FALSE, TRUE, FALSE, TRUE),      \* partitioned
     Shape(TRUE, "orphan", TRUE, TRUE, FALSE, FALSE),    \* PV in no group
     Shape(TRUE, "target", TRUE, TRUE, FALSE, FALSE),    \* PV of the target group
     Shape(TRUE, "other", TRUE, TRUE, FALSE, FALSE)}     \* PV of another group

Volume(vg_exists, lv_exists, lv_size, fs_type) ==
    [vg_exists |-> vg_exists, lv_exists |-> lv_exists, lv_size |-> lv_size,
     fs_type |-> fs_type, lv_data |-> fs_type # ""]

VolumeShapes ==
    {Volume(FALSE, FALSE, 0, ""), Volume(TRUE, FALSE, 0, "")}
    \cup {Volume(TRUE, TRUE, n * ExtentBytes, t) : n \in {2, 3}, t \in {"", "ext4", "xfs"}}

LineKinds ==
    {CommentLine, ShortLine, RootEntry, StaleEntry, StaleEntry2, DeviceEntry, MapperEntry}

RECURSIVE SeqsUpTo(_, _)
SeqsUpTo(S, n) ==
    IF n = 0 THEN {<<>>}
    ELSE LET shorter == SeqsUpTo(S, n - 1)
         IN shorter \cup {Append(q, x) : q \in {r \in shorter : Len(r) = n - 1}, x \in S}

Fstabs ==
    {[lines |-> l, eof_nl |-> nl] :
        l \in SeqsUpTo(LineKinds, MaxFstabLines), nl \in BOOLEAN}

Host(d, v, ft, src) ==
    [is_block |-> d.is_block, pv |-> d.pv, blkid_type |-> d.blkid_type,
     lsblk_ok |-> d.lsblk_ok, mounted |-> d.mounted, children |-> d.children,
     vg_exists |-> v.vg_exists, lv_exists |-> v.lv_exists, lv_size |-> v.lv_size,
     fs_type |-> v.fs_type, lv_data |-> v.lv_data,
     fstab |-> ft, src |-> src,
     src_mode |-> IF src = "missing" THEN "none" ELSE "0755",
     tmp |-> "absent", unit |-> "loaded"]

HostOk(h) ==
    /\ (h.pv = "target" => h.vg_exists)
    /\ (Len(h.fstab.lines) = 0 => h.fstab.eof_nl)
    /\ (~h.fstab.eof_nl => Len(h.fstab.lines[Len(h.fstab.lines)].f) > 0)

\* Every device and volume shape with a few mount tables, and every mount
\* table with a blank disk and with a disk an earlier run has provisioned.
FstabSamples ==
    {[lines |-> <<>>, eof_nl |-> TRUE],
     [lines |-> <<RootEntry, StaleEntry>>, eof_nl |-> TRUE],
     [lines |-> <<RootEntry>>, eof_nl |-> FALSE],
     [lines |-> <<DeviceEntry>>, eof_nl |-> TRUE]}

DeviceSamples ==
    {[d |-> Shape(TRUE, "none", FALSE, TRUE, FALSE, FALSE),
      v |-> Volume(FALSE, FALSE, 0, "")],
     [d |-> Shape(TRUE, "target", TRUE, TRUE, FALSE, FALSE),
      v |-> Volume(TRUE, TRUE, 2 * ExtentBytes, "ext4")]}

ValidDevices == {d \in DeviceShapes : d.is_block /\ ~check_device_in_use(d)}

Hosts ==
    {Host(d, v, ft, src) :
        d \in ValidDevices, v \in VolumeShapes, ft \in FstabSamples,
        src \in {"missing", "empty", "data"}}
    \cup {Host(d, dv.v, [lines |-> <<RootEntry>>, eof_nl |-> TRUE], "data") :
            d \in DeviceShapes \ ValidDevices, dv \in DeviceSamples}

FstabHosts == {Host(dv.d, dv.v, ft, "data") : dv \in DeviceSamples, ft \in Fstabs}

\* What `systemctl is-enabled <unit>` would answer for the mount unit of the
\* path: the unit is loaded, is masked, or cannot be queried.
UnitStates == {"loaded", "masked", "unknown"}

PathHosts ==
    {[Host(dv.d, dv.v, [lines |-> <<>>, eof_nl |-> TRUE], src) EXCEPT !.unit = u] :
        dv \in DeviceSamples, src \in {"missing", "empty", "data"}, u \in UnitStates}

Sizes ==
    {[num |-> 8, unit |-> "M"], [num |-> 12, unit |-> "M"],
     [num |-> 8, unit |-> ""], [num |-> 8, unit |-> "S"]}

Paths ==
    {[stem |-> "/var", trail |-> 0], [stem |-> "/var", trail |-> 1],
     [stem |-> "/var/log", trail |-> 0], [stem |-> "/var/log", trail |-> 2],
     [stem |-> "/home", trail |-> 0], [stem |-> "/tmp", trail |-> 0]}

Excludes ==
    {[given |-> FALSE, list |-> <<>>], [given |-> TRUE, list |-> <<>>],
     [given |-> TRUE, list |-> <<"cache/*">>]}

Params ==
    [size : Sizes, fstype : {"ext4", "xfs"}, sync : BOOLEAN,
     path : {[stem |-> "/var", trail |-> 0]},
     excludes : {[given |-> FALSE, list |-> <<>>]}]

FstabParams ==
    {[size |-> [num |-> 8, unit |-> "M"], fstype |-> "xfs", sync |-> TRUE,
      path |-> [stem |-> "/var", trail |-> 0],
      excludes |-> [given |-> FALSE, list |-> <<>>]]}

PathParams ==
    [size : {[num |-> 8, unit |-> "M"]}, fstype : {"ext4"}, sync : {TRUE},
     path : Paths, excludes : Excludes]

Init ==
    /\ \/ params \in Params /\ sys \in {h \in Hosts : HostOk(h)}
       \/ params \in FstabParams /\ sys \in {h \in FstabHosts : HostOk(h)}
       \/ params \in PathParams /\ sys \in {h \in PathHosts : HostOk(h)}
    /\ last = NoRun
    /\ tick = 0

(***************************************************************************)
(* Actions: one run of dedicated_disk_partition, one run of                *)
(* filesystem_sync, data appearing in the source directory, and a change   *)
(* of the requested filesystem type.  last is the result of the latest     *)
(* run (with the fault that run was given) while nothing else has touched  *)
(* the host or the parameters since; tick flips on every run, so that a    *)
(* run is never a stuttering step.                                         *)
(***************************************************************************)
\* A fault on a command the run does not invoke is no fault: the faults tried
\* are the commands the fault-free run invokes.
Invoked(cmds) == {"none"} \cup ({cmds[i] : i \in 1..Len(cmds)} \cap Faults)

RunDedicatedDiskPartition ==
    \E check \in BOOLEAN :
        \E fault \in Invoked(main(sys, params, check, "none").res.cmds) :
            LET r == main(sys, params, check, fault)
            IN /\ sys' = r.sys
               /\ last' = [r.res EXCEPT !.fault = fault]
               /\ tick' = 1 - tick
               /\ UNCHANGED params

RunFilesystemSync ==
    \E check \in BOOLEAN :
        \E fault \in Invoked(run_module(sys, params, check, "none").res.cmds) :
            LET r == run_module(sys, params, check, fault)
            IN /\ sys' = r.sys
               /\ last' = [r.res EXCEPT !.fault = fault]
               /\ tick' = 1 - tick
               /\ UNCHANGED params

PutData ==
    /\ sys.src # "data"
    /\ sys' = [sys EXCEPT !.src = "data",
                          !.src_mode = IF sys.src = "missing" THEN "0755" ELSE @]
    /\ last' = NoRun
    /\ UNCHANGED <<params, tick>>

\* The caller asks for the other filesystem type from now on.
ChangeFstype ==
    /\ params' = [params EXCEPT !.fstype = IF @ = "ext4" THEN "xfs" ELSE "ext4"]
    /\ last' = NoRun
    /\ UNCHANGED <<sys, tick>>

Next == RunDedicatedDiskPartition \/ RunFilesystemSync \/ PutData \/ ChangeFstype

Spec == Init /\ [][Next]_vars

(***************************************************************************)
(* Vocabulary of the properties.                                           *)
(***************************************************************************)
RunStep == tick' # tick
Ddp(r) == r.module = "dedicated_disk_partition"
Apply(r) == Ddp(r) /\ ~r.check_mode
DryRun(r) == Ddp(r) /\ r.check_mode
Ok(r) == r.failed = ""
Has(q, x) == \E i \in 1..Len(q) : q[i] = x
MutatingIn(cmds) == {i \in 1..Len(cmds) : cmds[i] \in MutatingCommands}
ValidationFailures ==
    {"not a valid block device", "already in use or part of another configuration"}
ValidDevice(s) == check_block_device(s) /\ ~check_device_in_use(s)

\* The stage a message of the result belongs to.  Creating the missing source
\* directory is what the data-sync stage of an apply run does, so it counts as
\* that stage.
StageOf(msg) ==
    CASE msg \in {"would ensure VG and PV", "created VG"} -> "vg"
      [] msg \in {"would create LV", "created LV"} -> "lv"
      [] msg \in {"would resize LV and filesystem", "resized LV and filesystem"} -> "resize"
      [] msg \in {"would create filesystem", "created filesystem"} -> "fs"
      [] msg \in {"would update fstab", "commented out previous fstab entries",
                  "added new fstab entry"} -> "fstab"
      [] msg \in {"would sync data", "synced data", "created source directory"} -> "sync"
      [] OTHER -> msg

RECURSIVE Stages(_)
Stages(msgs) ==
    IF Len(msgs) = 0 THEN <<>>
    ELSE LET rest == Stages(Tail(msgs))
             st == StageOf(Head(msgs))
         IN IF Len(rest) > 0 /\ Head(rest) = st THEN rest ELSE <<st>> \o rest

ActiveFor(fstab) == {i \in 1..Len(fstab.lines) : IsForPath(fstab.lines[i])}
CorrectIn(fstab) == {i \in 1..Len(fstab.lines) : IsCorrect(fstab.lines[i])}

(***************************************************************************)
(* C1.  Idempotence of reconcile: when an apply run has completed          *)
(* successfully and nothing else touches the host, a second apply run      *)
(* with the same parameters succeeds, reports changed = false, invokes no  *)
(* mutating command and leaves /etc/fstab as it was.  Stated for the       *)
(* sizes size_to_bytes accepts and for a second run in which the size      *)
(* query of LVM does not fail.                                             *)
(***************************************************************************)
C1_Idempotent ==
    [][(RunStep /\ Apply(last) /\ Ok(last) /\ Apply(last') /\ last'.failed # "lvs_size"
            /\ size_valid(params.size))
        => /\ Ok(last')
           /\ ~last'.changed
           /\ MutatingIn(last'.cmds) = {}
           /\ sys'.fstab = sys.fstab]_vars

(***************************************************************************)
(* C2.  Dry-run mutates nothing: a check-mode run of                       *)
(* dedicated_disk_partition or of filesystem_sync invokes no mutating      *)
(* command, writes nothing, and leaves the host as it found it.            *)
(***************************************************************************)
C2_DryRunMutatesNothing ==
    [][(RunStep /\ last'.check_mode)
        => sys' = sys /\ MutatingIn(last'.cmds) = {}]_vars

C2_Witness ==
    DryRun(last) /\ Ok(last) /\ last.changed /\ Len(last.msgs) >= 4

(***************************************************************************)
(* C3.  Dry-run parity: the stages a successful check-mode run reports     *)
(* are, in the same order, the stages the apply run performs from the      *)
(* same host with the same parameters (no tool failing), and that apply    *)
(* run does not fail.                                                      *)
(***************************************************************************)
C3_DryRunParity ==
    [][(RunStep /\ DryRun(last) /\ Ok(last) /\ Apply(last') /\ last'.failed \notin Faults)
        => Ok(last') /\ Stages(last'.msgs) = Stages(last.msgs)]_vars

(***************************************************************************)
(* C4.  Device validation is a fatal pre-flight: in apply and in check     *)
(* mode the block-device check and the in-use check come before every      *)
(* mutating command; the run fails with a validation failure exactly when  *)
(* the device is no block device or is in use, and then it has invoked no  *)
(* mutating command and the host (fstab included) is unchanged.            *)
(***************************************************************************)
C4_ValidationFirst ==
    [][(RunStep /\ Ddp(last'))
        => /\ \A i \in MutatingIn(last'.cmds) :
                /\ \E j \in 1..(i - 1) : last'.cmds[j] = "check_block_device"
                /\ \E j \in 1..(i - 1) : last'.cmds[j] = "check_device_in_use"
           /\ (last'.failed \in ValidationFailures) <=> ~ValidDevice(sys)
           /\ last'.failed \in ValidationFailures
                => sys' = sys /\ MutatingIn(last'.cmds) = {}]_vars

C4_Witness ==
    /\ Ddp(last)
    /\ last.failed = "already in use or part of another configuration"
    /\ ~last.state.vg_exists

(***************************************************************************)
(* C5.  Device in-use decision: a run reports the device in use exactly    *)
(* when it is a physical volume of a group other than the target, or is    *)
(* no physical volume and carries a filesystem signature, is mounted, has  *)
(* partition children or cannot be listed; an orphan physical volume and   *)
(* a physical volume of the target group pass, and so does the device      *)
(* after a successful apply run.                                           *)
(***************************************************************************)
InUseBySpec(s) ==
    \/ s.pv = "other"
    \/ s.pv = "none" /\ (s.blkid_type \/ s.mounted \/ s.children \/ ~s.lsblk_ok)

C5_InUseDecision ==
    [][(RunStep /\ Ddp(last') /\ check_block_device(sys))
        => /\ (last'.failed = "already in use or part of another configuration")
                <=> InUseBySpec(sys)
           /\ (Apply(last') /\ Ok(last'))
                => ~InUseBySpec(sys') /\ ~check_device_in_use(sys')]_vars

C5_Witness ==
    /\ Apply(last) /\ Ok(last) /\ Has(last.cmds, "vgcreate")
    /\ sys.pv = "target" /\ sys.blkid_type

(***************************************************************************)
(* C6.  Volume-group mismatch is fatal: when the target group exists and   *)
(* the device is none of its physical volumes, the run fails, in apply     *)
(* mode and in check mode alike, and does nothing to the volume, the       *)
(* filesystem, fstab or the data.                                          *)
(***************************************************************************)
C6_VgMismatchFatal ==
    [][(RunStep /\ Ddp(last') /\ ValidDevice(sys) /\ sys.vg_exists /\ sys.pv # "target")
        => /\ last'.failed = "VG exists but specified device is not part of it"
           /\ MutatingIn(last'.cmds) = {}]_vars

(***************************************************************************)
(* C7.  Migration precedes the mount-table update: in an apply run fstab   *)
(* is not written before the mount and rsync of that run, and a run that   *)
(* fails in the migration has not written fstab.                           *)
(***************************************************************************)
C7_MigrationBeforeFstab ==
    Apply(last)
        => /\ \A i, j \in 1..Len(last.cmds) :
                (last.cmds[i] = "write_fstab" /\ last.cmds[j] \in {"mount", "rsync"})
                    => j < i
           /\ last.failed \in {"mount", "rsync"} => ~Has(last.cmds, "write_fstab")

(***************************************************************************)
(* C8.  Monotonic sizing.  As claimed: in a run where the logical volume   *)
(* exists and the requested size is not larger than its current size,      *)
(* neither a resize nor a filesystem creation is performed or reported.    *)
(***************************************************************************)
SizeNotLarger(s, p) ==
    s.lv_exists /\ size_valid(p.size) /\ size_to_bytes(p.size) <= s.lv_size

NoResize(r) ==
    /\ ~Has(r.cmds, "lvextend")
    /\ ~Has(r.msgs, "resized LV and filesystem")
    /\ ~Has(r.msgs, "would resize LV and filesystem")

NoMkfs(r) ==
    /\ ~Has(r.cmds, "mkfs")
    /\ ~Has(r.msgs, "created filesystem")
    /\ ~Has(r.msgs, "would create filesystem")

C9_SingleActiveEntry ==
    [][(RunStep /\ Apply(last') /\ Ok(last'))
        => /\ CorrectIn(sys.fstab) = {}
                => /\ Cardinality(ActiveFor(sys'.fstab)) = 1
                   /\ CorrectIn(sys'.fstab) = {Len(sys'.fstab.lines)}
                   /\ Len(sys'.fstab.lines) = Len(sys.fstab.lines) + 1
                   /\ \A i \in 1..Len(sys.fstab.lines) :
                        sys'.fstab.lines[i] =
                            IF i \in ActiveFor(sys.fstab)
                            THEN [sys.fstab.lines[i] EXCEPT !.c = 1]
                            ELSE sys.fstab.lines[i]
           /\ (Apply(last) /\ Ok(last)) => sys'.fstab = sys.fstab]_vars

(***************************************************************************)
(* C10.  Fstab uniqueness: after a successful apply run, whatever the      *)
(* mount table held before, exactly one active entry has the path as its   *)
(* mount point, and it is an entry for the logical volume.  Stated for a   *)
(* mount table that ends with a newline.                                   *)
(***************************************************************************)
C10_FstabUniqueness ==
    [][(RunStep /\ Apply(last') /\ Ok(last') /\ sys.fstab.eof_nl)
        => /\ Cardinality(ActiveFor(sys'.fstab)) = 1
           /\ ActiveFor(sys'.fstab) = CorrectIn(sys'.fstab)]_vars

(***************************************************************************)
(* C11.  New fstab entry format: when the mount table (ending with a       *)
(* newline) holds no entry for the logical volume, a successful apply run  *)
(* appends one line whose fields are /dev/<vg>/<lv>, the path without its  *)
(* trailing slashes, the resolved filesystem type (the detected one, else  *)
(* the requested one), defaults, dump flag 0 and the pass number: 0 for    *)
(* the transient mount points /tmp and /var/tmp, 2 for every other path.   *)
(***************************************************************************)
TransientMountPoints == {"/tmp", "/var/tmp"}

PassNumber(mount_point) == IF mount_point \in TransientMountPoints THEN "0" ELSE "2"

C11_NewEntryFormat ==
    [][(RunStep /\ Apply(last') /\ Ok(last')
            /\ CorrectIn(sys.fstab) = {} /\ sys.fstab.eof_nl)
        => /\ Len(sys'.fstab.lines) = Len(sys.fstab.lines) + 1
           /\ sys'.fstab.lines[Len(sys'.fstab.lines)] =
                [c |-> 0,
                 f |-> <<Tok("/dev/vg/lv"), Tok(params.path.stem),
                         Tok(IF get_fs_type(sys) # "" THEN sys.fs_type
                             ELSE params.fstype),
                         Tok("defaults"), Tok("0"),
                         Tok(PassNumber(params.path.stem))>>]]_vars

(***************************************************************************)
(* C12.  Existing filesystem wins and is formatted at most once.  A run    *)
(* invokes mkfs only in apply mode and only if it created the logical      *)
(* volume or the probe at entry found no filesystem type, and a run that   *)
(* gets as far as the filesystem stage invokes it exactly then.  A run     *)
(* that finds a type at entry never invokes mkfs and leaves the type as    *)
(* it is, whatever type is requested; a successful mkfs leaves a type, so  *)
(* no later run formats again.  The entry such a run adds to fstab         *)
(* carries the detected type.                                              *)
(***************************************************************************)
C12_FormatAtMostOnce ==
    [][RunStep
        => /\ Has(last'.cmds, "mkfs")
                => /\ Apply(last')
                   /\ Has(last'.cmds, "lvcreate") \/ get_fs_type(sys) = ""
           /\ (Apply(last') /\ last'.failed \in {"", "mount", "rsync"})
                => (Has(last'.cmds, "mkfs")
                        <=> (Has(last'.cmds, "lvcreate") \/ get_fs_type(sys) = ""))
           /\ get_fs_type(sys) # ""
                => /\ ~Has(last'.cmds, "mkfs")
                   /\ sys'.lv_exists /\ sys'.fs_type = sys.fs_type
           /\ (Has(last'.cmds, "mkfs") /\ last'.failed # "mkfs")
                => sys'.lv_exists /\ sys'.fs_type = params.fstype
           /\ (Apply(last') /\ Ok(last') /\ get_fs_type(sys) # ""
                    /\ Has(last'.msgs, "added new fstab entry"))
                => LET l == sys'.fstab.lines[Len(sys'.fstab.lines)]
                   IN l.f[Len(l.f) - 3] = Tok(sys.fs_type)]_vars

C12_Witness ==
    /\ Apply(last) /\ Ok(last)
    /\ last.state.fs_type # "" /\ last.state.fs_type # params.fstype
    /\ sys.fs_type = last.state.fs_type
    /\ Has(last.msgs, "added new fstab entry")

(***************************************************************************)
(* C13.  Migration only after fresh filesystem creation.  A reconcile run  *)
(* invokes mount or rsync only in apply mode, with sync enabled, after a   *)
(* successful mkfs of that same run, and with a source directory that      *)
(* holds data; a run that finds a filesystem at entry invokes neither and  *)
(* leaves the data on the volume as it is.  A run that has invoked them    *)
(* leaves a filesystem, so no later reconcile run migrates again.          *)
(***************************************************************************)
C13_MigrationOnlyAfterFreshFs ==
    [][(RunStep /\ Ddp(last'))
        => /\ \A i \in 1..Len(last'.cmds) :
                last'.cmds[i] \in {"mount", "rsync"}
                    => /\ Apply(last') /\ params.sync
                       /\ sys.src = "data"
                       /\ get_fs_type(sys) = ""
                       /\ last'.failed # "mkfs"
                       /\ \E j \in 1..(i - 1) : last'.cmds[j] = "mkfs"
                       /\ sys'.lv_exists /\ sys'.fs_type # ""
           /\ get_fs_type(sys) # ""
                => /\ ~Has(last'.cmds, "mount") /\ ~Has(last'.cmds, "rsync")
                   /\ sys'.lv_data = sys.lv_data]_vars

C13_Witness ==
    /\ Apply(last) /\ Ok(last) /\ Has(last.cmds, "rsync")
    /\ last.state.fs_type = "" /\ sys.lv_data /\ sys.src = "data"

(***************************************************************************)
(* C14.  Missing-source bootstrap, for successful apply runs with sync     *)
(* enabled.  A run that finds no source directory (and no filesystem on    *)
(* the volume yet) creates the directory with mode 0750 and invokes        *)
(* neither mount nor rsync.  A later run, made when data has been placed   *)
(* in the directory the module created and the volume has not received     *)
(* it, ends with the volume and its filesystem in place and that data      *)
(* synchronised onto the volume.                                           *)
(***************************************************************************)
C14_MissingSourceBootstrap ==
    [][(RunStep /\ Apply(last') /\ Ok(last') /\ params.sync)
        => /\ (sys.src = "missing" /\ get_fs_type(sys) = "")
                => /\ sys'.src = "empty" /\ sys'.src_mode = "0750"
                   /\ ~Has(last'.cmds, "mount") /\ ~Has(last'.cmds, "rsync")
           /\ (sys.src = "data" /\ sys.src_mode = "0750" /\ ~sys.lv_data)
                => /\ sys'.lv_exists /\ sys'.fs_type # ""
                   /\ Has(last'.cmds, "rsync")
                   /\ sys'.lv_data]_vars

(***************************************************************************)
(* C15.  Empty-source skip: in a run of dedicated_disk_partition or of     *)
(* filesystem_sync that finds the source directory existing and empty, no  *)
(* temporary mount point is created, none of mount, rsync and umount is    *)
(* invoked, and no change is reported for the sync: filesystem_sync        *)
(* reports changed = false, dedicated_disk_partition reports no sync       *)
(* message and leaves the volume's data as it is.                          *)
(***************************************************************************)
SyncCommands == {"makedirs_temp_mnt", "mount", "rsync", "umount", "rmdir_temp_mnt"}

SyncMessages == {"synced data", "would sync data", "created source directory"}

C15_EmptySourceSkip ==
    [][(RunStep /\ sys.src = "empty")
        => /\ \A i \in 1..Len(last'.cmds) : last'.cmds[i] \notin SyncCommands
           /\ sys'.tmp = sys.tmp /\ sys'.src = "empty" /\ sys'.lv_data = sys.lv_data
           /\ \A i \in 1..Len(last'.msgs) : last'.msgs[i] \notin SyncMessages
           /\ ~Ddp(last') => Ok(last') /\ ~last'.changed /\ sys' = sys]_vars

C15_Witness ==
    /\ Apply(last) /\ Ok(last) /\ last.params.sync
    /\ Has(last.cmds, "mkfs") /\ sys.src = "empty"
    /\ ~Has(last.cmds, "mount")

(***************************************************************************)
(* C16.  Exclusion resolution: whenever either module invokes rsync, its   *)
(* --exclude arguments are the lost+found pattern followed by the active   *)
(* set and nothing else; the active set is the list the user supplied      *)
(* when one is supplied (only lost+found remains for an empty list,        *)
(* whatever the path), else log/* and tmp/* for /var, audit/* for          *)
(* /var/log and nothing for any other path, the path being taken without   *)
(* its trailing slashes.                                                   *)
(***************************************************************************)
LostAndFound == {"lost+found", "lost+found/"}

ExpectedActive(p) ==
    IF p.excludes.given
    THEN {p.excludes.list[i] : i \in 1..Len(p.excludes.list)}
    ELSE IF p.path.stem = "/var" THEN {"log/*", "tmp/*"}
    ELSE IF p.path.stem = "/var/log" THEN {"audit/*"}
    ELSE {}

RebootCommands ==
    {"vgcreate", "lvcreate", "mkfs", "write_fstab", "rsync", "makedirs_path"}

C18_RebootRequired ==
    [][(RunStep /\ Ddp(last') /\ Ok(last'))
        => /\ Apply(last')
                => (last'.reboot_required
                        <=> \E i \in 1..Len(last'.cmds) : last'.cmds[i] \in RebootCommands)
           /\ DryRun(last')
                => (~last'.reboot_required
                        <=> last'.msgs \in {<<>>, <<"would resize LV and filesystem">>})
           /\ (Apply(last') /\ DryRun(last) /\ Ok(last))
                => last'.reboot_required = last.reboot_required]_vars

C18_Witness ==
    /\ Apply(last) /\ Ok(last) /\ last.changed
    /\ Has(last.cmds, "lvextend") /\ ~last.reboot_required

(***************************************************************************)
(* C19.  Tool failure is fatal and never retried: when pvremove,           *)
(* pvcreate, vgcreate, lvcreate, lvextend, mkfs, mount, rsync or the       *)
(* query of the volume's size exits non-zero, the run ends with that       *)
(* failure and reports neither a change nor a message of success; the      *)
(* failing command was invoked once, and after it the run invokes nothing  *)
(* but the release of the temporary mount point (umount and the removal    *)
(* of the directory, each for the first time): no mutating command of a    *)
(* later stage and no command a second time.                               *)
(***************************************************************************)
FatalCommands == Faults \ {"none"}

Cleanup == {"umount", "rmdir_temp_mnt"}

C19_ToolFailureFatal ==
    [][(RunStep /\ (last'.fault # "none" \/ last'.failed \in FatalCommands))
        => /\ last'.failed \in FatalCommands
           /\ last'.fault # "none" => last'.failed = last'.fault
           /\ ~last'.changed /\ last'.msgs = <<>> /\ ~last'.reboot_required
           /\ \E i \in 1..Len(last'.cmds) :
                /\ last'.cmds[i] = last'.failed
                /\ \A j \in 1..Len(last'.cmds) :
                      /\ j # i => last'.cmds[j] # last'.cmds[i]
                      /\ j > i
                            => /\ last'.cmds[j] \in Cleanup
                               /\ \A k \in 1..(j - 1) : last'.cmds[k] # last'.cmds[j]]_vars

C19_Witness ==
    /\ Ddp(last) /\ last.fault = "rsync" /\ last.failed = "rsync"
    /\ Has(last.cmds, "write_fstab") /\ Has(last.cmds, "umount")

(***************************************************************************)
(* C20.  Conflicting mount unit is masked.  The mount unit of the path     *)
(* (the path without its leading and trailing slashes, dashes for the      *)
(* interior slashes, then .mount) is evaluated by every successful         *)
(* reconcile run after its fstab stage: when the unit is loaded and not    *)
(* masked, an apply run masks it and reloads the unit database, and a      *)
(* check-mode run reports the mask as intended and leaves the unit alone;  *)
(* when the unit is masked already or cannot be queried, nothing is done   *)
(* to it.                                                                  *)
(***************************************************************************)
MaskCommands == {"systemctl_mask", "systemctl_daemon_reload"}

C20_MountUnitMasked ==
    [][(RunStep /\ Ddp(last') /\ Ok(last'))
        => /\ (Apply(last') /\ sys.unit = "loaded")
                => /\ sys'.unit = "masked"
                   /\ \A c \in MaskCommands : Has(last'.cmds, c)
           /\ (DryRun(last') /\ sys.unit = "loaded")
                => /\ sys'.unit = "loaded"
                   /\ Has(last'.msgs, "would mask mount unit")
           /\ sys.unit # "loaded"
                => /\ sys'.unit = sys.unit
                   /\ \A c \in MaskCommands : ~Has(last'.cmds, c)]_vars

(***************************************************************************)
(* C21.  No silent mutation: a successful apply run reports changed =      *)
(* true exactly when it executed a mutating action; every mutating action  *)
(* it executed (removal of an orphan PV label, PV and VG creation, LV      *)
(* creation, resize, mkfs, rewrite of fstab, creation of the source        *)
(* directory, data sync) is named by an entry of the message; and with     *)
(* changed = false the message is the no-change message (no entry) and no  *)
(* mutating command was invoked.                                           *)
(***************************************************************************)
NamedBy(cmd) ==
    CASE cmd = "pvremove" -> {"removed orphan PV label"}
      [] cmd \in {"pvcreate", "vgcreate"} -> {"created VG"}
      [] cmd = "lvcreate" -> {"created LV"}
      [] cmd = "lvextend" -> {"resized LV and filesystem"}
      [] cmd = "mkfs" -> {"created filesystem"}
      [] cmd = "write_fstab" ->
            {"commented out previous fstab entries", "added new fstab entry"}
      [] cmd = "makedirs_path" -> {"created source directory"}
      [] OTHER -> {"synced data"}

C21_NoSilentMutation ==
    [][(RunStep /\ Apply(last') /\ Ok(last'))
        => /\ last'.changed <=> MutatingIn(last'.cmds) # {}
           /\ \A i \in MutatingIn(last'.cmds) :
                \E k \in 1..Len(last'.msgs) : last'.msgs[k] \in NamedBy(last'.cmds[i])
           /\ ~last'.changed => last'.msgs = <<>> /\ sys' = sys]_vars

(***************************************************************************)
(* C23.  Dependency-ordered, probe-gated stages.  In an apply run:         *)
(* pvremove is invoked only for an orphan physical volume with the volume  *)
(* group absent; pvcreate only with the group absent and the device no     *)
(* physical volume (at entry, or after the pvremove of this run);          *)
(* vgcreate only with the group absent and after them; lvcreate only with  *)
(* the volume absent at entry and the group existing with the device as    *)
(* its member (at entry, or created by this run); lvextend only on a       *)
(* volume that existed at entry and is smaller than requested; mkfs only   *)
(* on a volume that exists (at entry without a filesystem, or created by   *)
(* this run); mount and rsync only after the mkfs of this run.  A stage    *)
(* whose probe shows its goal met invokes no mutating command.             *)
(***************************************************************************)
Before(cmds, i, x) == \E j \in 1..(i - 1) : cmds[j] = x

FstabConverged(fstab) == CorrectIn(fstab) # {} /\ ActiveFor(fstab) = CorrectIn(fstab)

C23_ProbeGatedStages ==
    [][(RunStep /\ Apply(last'))
        => LET cmds == last'.cmds
           IN /\ \A i \in 1..Len(cmds) :
                   /\ cmds[i] = "pvremove" => sys.pv = "orphan" /\ ~sys.vg_exists
                   /\ cmds[i] = "pvcreate"
                        => /\ ~sys.vg_exists
                           /\ sys.pv = "none" \/ Before(cmds, i, "pvremove")
                   /\ cmds[i] = "vgcreate"
                        => /\ ~sys.vg_exists
                           /\ \A j \in (i + 1)..Len(cmds) :
                                cmds[j] \notin {"pvremove", "pvcreate"}
                   /\ cmds[i] = "lvcreate"
                        => /\ ~sys.lv_exists
                           /\ \/ sys.vg_exists /\ sys.pv = "target"
                              \/ Before(cmds, i, "vgcreate")
                   /\ cmds[i] = "lvextend"
                        => sys.lv_exists /\ ~SizeNotLarger(sys, params)
                   /\ cmds[i] = "mkfs"
                        => \/ sys.lv_exists /\ sys.fs_type = ""
                           \/ ~sys.lv_exists /\ Before(cmds, i, "lvcreate")
                   /\ cmds[i] = "mount" => Before(cmds, i, "mkfs")
                   /\ cmds[i] = "rsync"
                        => Before(cmds, i, "mkfs") /\ Before(cmds, i, "mount")
              /\ sys.vg_exists
                   => \A c \in {"pvremove", "pvcreate", "vgcreate"} : ~Has(cmds, c)
              /\ sys.lv_exists => ~Has(cmds, "lvcreate")
              /\ SizeNotLarger(sys, params) => ~Has(cmds, "lvextend")
              /\ get_fs_type(sys) # "" => ~Has(cmds, "mkfs")
              /\ FstabConverged(sys.fstab) => ~Has(cmds, "write_fstab")]_vars

C23_Witness ==
    /\ Apply(last) /\ Ok(last)
    /\ Has(last.cmds, "pvremove") /\ Has(last.cmds, "lvcreate")
    /\ Has(last.cmds, "rsync") /\ sys.lv_data

(***************************************************************************)
(* C24.  Fstab frame condition: a run neither deletes nor reorders a line  *)
(* of /etc/fstab; a line that is a comment, has fewer than six fields, is  *)
(* for another mount point or is an entry for the logical volume stays as  *)
(* it was; the only edits are one more "# " in front of each active entry  *)
(* for the path that is not for the logical volume, and at most one        *)
(* new line at the end, added only when no entry for the logical volume    *)
(* existed; the file is written exactly when one of those edits occurred.  *)
(***************************************************************************)
C24_FstabFrame ==
    [][(RunStep /\ Ddp(last'))
        => LET old == sys.fstab.lines
               new == sys'.fstab.lines
           IN /\ Len(new) \in {Len(old), Len(old) + 1}
              /\ \A i \in 1..Len(old) :
                    \/ new[i] = old[i]
                    \/ IsPrevious(old[i]) /\ new[i] = [old[i] EXCEPT !.c = @ + 1]
              /\ Len(new) = Len(old) + 1
                    => CorrectIn(sys.fstab) = {} /\ IsCorrect(new[Len(new)])
              /\ Has(last'.cmds, "write_fstab") <=> new # old]_vars

(***************************************************************************)
(* C25.  Reported snapshot: a dry run returns as validation_results the    *)
(* snapshot taken at entry, an apply run the state captured again after    *)
(* its mutations; and after every successful apply run that snapshot is    *)
(* converged: the volume group and the logical volume exist, the           *)
(* filesystem type is non-empty, the mount table has a correct entry and   *)
(* no previous entries.                                                    *)
(***************************************************************************)
Converged(v) ==
    /\ v.vg_exists
    /\ v.lv_exists
    /\ v.fs_type # ""
    /\ v.fstab_correct
    /\ v.fstab_previous_entries = 0

C25_ReportedSnapshot ==
    [][(RunStep /\ Ddp(last') /\ Ok(last'))
        => /\ DryRun(last')
                => last'.validation_results = validate_current_state(sys)
           /\ Apply(last')
                => /\ last'.validation_results = validate_current_state(sys')
                   /\ Converged(last'.validation_results)]_vars

(***************************************************************************)
(* C26.  The appended fstab entry is a record of its own: whatever the     *)
(* mount table held, also when its last line (an entry or a comment) does  *)
(* not end with a newline, after a run has added the new entry             *)
(* check_fstab_entry finds a correct entry and no previous entries, and    *)
(* every line that existed before has the fields it had.                   *)
(***************************************************************************)
C26_AppendedEntryOwnRecord ==
    [][(RunStep /\ Apply(last') /\ Has(last'.msgs, "added new fstab entry"))
        => LET e == check_fstab_entry(sys'.fstab)
           IN /\ e.has_correct
              /\ e.previous_lines = {}
              /\ Len(sys'.fstab.lines) >= Len(sys.fstab.lines)
              /\ \A i \in 1..Len(sys.fstab.lines) :
                    sys'.fstab.lines[i].f = sys.fstab.lines[i].f]_vars

(***************************************************************************)
(* C27.  Recovery after a failed migration: when an apply run with sync    *)
(* enabled has formatted the new volume and then aborted in mount or       *)
(* rsync, the next apply run with the same parameters and no fault         *)
(* synchronises the data; and no apply run with sync enabled reports       *)
(* changed = false while the mount table has a correct entry for the path  *)
(* and the non-empty source data was never synchronised onto the volume.   *)
(***************************************************************************)
MigrationCommands == {"mount", "rsync"}

AbortedInMigration(r) ==
    /\ Apply(r) /\ r.params.sync
    /\ Has(r.cmds, "mkfs")
    /\ r.fault \in MigrationCommands /\ ~Ok(r)

NeverSynced(s) ==
    /\ CorrectIn(s.fstab) # {}
    /\ s.src = "data"
    /\ ~s.lv_data

C27_RecoveryAfterFailedMigration ==
    [][(RunStep /\ Apply(last') /\ last'.params.sync /\ last'.fault = "none")
        => /\ (AbortedInMigration(last) /\ last'.params = last.params)
                => Has(last'.cmds, "rsync") /\ sys'.lv_data
           /\ (Ok(last') /\ ~last'.changed) => ~NeverSynced(sys')]_vars

(***************************************************************************)
(* configure_filesystem_kernel_modules, the kernel-module editor.          *)
(*                                                                         *)
(* Under SpecKm the host record sys is what this module reads and writes:  *)
(* the modprobe configuration file (whether it exists, whether its mode,   *)
(* owner and group are the required ones, its lines, whether the last line *)
(* ends with a newline), the loaded modules of /proc/modules, whether      *)
(* /proc/mounts shows a /snap/ mount and whether modules.builtin names     *)
(* squashfs.  params is the modules parameter, last the result of the      *)
(* latest run.                                                             *)
(*                                                                         *)
(* A module name is a word, a word a sequence of pieces, so that one name  *)
(* can be part of another (hfs in hfsplus); a line is its sequence of      *)
(* words, single-spaced and stripped.  Python's 'm in line' is Mentions.   *)
(***************************************************************************)
hfs == <<"hfs">>
hfsplus == <<"hfs", "plus">>
cramfs == <<"cramfs">>
squashfs == <<"squashfs">>

Infix(a, b) ==
    \E i \in 1..(Len(b) - Len(a) + 1) : SubSeq(b, i, i + Len(a) - 1) = a

Mentions(line, module_name) ==
    \E k \in 1..Len(line) : Infix(module_name, line[k])

FILE_HEADER == <<Tok("# Managed by Ansible collection dtvlinux.cis_hardening")>>

install_line(module_name) == <<Tok("install"), module_name, Tok("/bin/false")>>
blacklist_line(module_name) == <<Tok("blacklist"), module_name>>

Names(modules) == {modules[i] : i \in 1..Len(modules)}
LinesOf(lines) == {lines[i] : i \in 1..Len(lines)}

RECURSIVE Directives(_)
Directives(modules) ==
    IF modules = <<>> THEN <<>>
    ELSE <<install_line(Head(modules)), blacklist_line(Head(modules))>>
         \o Directives(Tail(modules))

SkipNotice == "skipped squashfs as in use"

\* exit: the module has answered (squashfs alone, in use); otherwise the
\* modules left to configure and the notice, "" for None.
filter_modules(s, modules) ==
    IF squashfs \notin Names(modules)
    THEN [exit |-> FALSE, modules |-> modules, skip_msg |-> ""]
    ELSE IF s.squashfs_in_use \/ s.squashfs_builtin
    THEN IF Len(modules) = 1
         THEN [exit |-> TRUE, modules |-> modules, skip_msg |-> SkipNotice]
         ELSE [exit |-> FALSE,
               modules |-> SelectSeq(modules, LAMBDA m : m # squashfs),
               skip_msg |-> SkipNotice]
    ELSE [exit |-> FALSE, modules |-> modules, skip_msg |-> ""]

check_config_file_exists(s) == s.exists
check_config_file_mode(s) == s.mode_ok
check_config_file_user(s) == s.user_ok
check_config_file_group(s) == s.group_ok

update_config_file_mode(s) == [s EXCEPT !.mode_ok = TRUE]
update_config_file_ownership(s) == [s EXCEPT !.user_ok = TRUE, !.group_ok = TRUE]

check_config_file_header(s) == s.lines # <<>> /\ s.lines[1] = FILE_HEADER

StartsWithDirective(line) ==
    line # <<>> /\ line[1] \in {Tok("install"), Tok("blacklist")}

update_config_file_header(s) ==
    IF s.lines = <<>>
    THEN [s EXCEPT !.lines = <<FILE_HEADER>>, !.eof_nl = TRUE]
    ELSE IF StartsWithDirective(s.lines[1])
    THEN [s EXCEPT !.lines = <<FILE_HEADER>> \o s.lines]
    ELSE [s EXCEPT !.lines = <<FILE_HEADER>> \o Tail(s.lines),
                   !.eof_nl = IF Len(s.lines) = 1 THEN TRUE ELSE @]

check_config_file_contents(s, modules) ==
    [module_name \in Names(modules) |->
        LET has_required == /\ install_line(module_name) \in LinesOf(s.lines)
                            /\ blacklist_line(module_name) \in LinesOf(s.lines)
            other_mentions ==
                {l \in LinesOf(s.lines) :
                    /\ Mentions(l, module_name)
                    /\ l # install_line(module_name)
                    /\ l # blacklist_line(module_name)}
        IN has_required /\ other_mentions = {}]

\* Called only on a file that has a first line (the header stage ran before).
update_config_file_contents(s, modules) ==
    LET kept == SelectSeq(Tail(s.lines),
                          LAMBDA line : \A m \in Names(modules) : ~Mentions(line, m))
    IN [s EXCEPT !.lines = <<s.lines[1]>> \o kept \o Directives(modules),
                 !.eof_nl = TRUE]

check_modules_unloaded(s, modules) ==
    [m \in Names(modules) |-> m \notin s.loaded]

km_validate_current_state(s, modules) ==
    IF ~check_config_file_exists(s)
    THEN [conf_contents |-> [m \in Names(modules) |-> FALSE],
          conf_exists |-> FALSE,
          conf_group |-> FALSE,
          conf_header |-> FALSE,
          conf_mode |-> FALSE,
          conf_user |-> FALSE,
          module_unloaded |-> [m \in Names(modules) |-> FALSE]]
    ELSE [conf_contents |-> check_config_file_contents(s, modules),
          conf_exists |-> TRUE,
          conf_group |-> check_config_file_group(s),
          conf_header |-> check_config_file_header(s),
          conf_mode |-> check_config_file_mode(s),
          conf_user |-> check_config_file_user(s),
          module_unloaded |-> check_modules_unloaded(s, modules)]

create_config_file(s, modules) ==
    [s EXCEPT !.exists = TRUE,
              !.lines = <<FILE_HEADER>> \o Directives(modules),
              !.eof_nl = TRUE,
              !.user_ok = TRUE, !.group_ok = TRUE, !.mode_ok = TRUE]

\* modprobe -r for each module; its exit status is not looked at.  Under the
\* fault "modprobe" the command exits non-zero and the modules stay loaded.
unload_modules(s, modules_to_unload, fault) ==
    IF fault = "modprobe" THEN s
    ELSE [s EXCEPT !.loaded = @ \ modules_to_unload]

KmNoRun ==
    [module |-> "none", check_mode |-> FALSE, modules |-> <<>>, failed |-> "",
     skipped |-> FALSE, changed |-> FALSE, msgs |-> <<>>,
     content_modules |-> {}, to_unload |-> {}, ops |-> <<>>,
     state |-> <<>>, validation_results |-> <<>>, fault |-> "none"]

\* The stages of main after the file is known to exist.  m is the run so far:
\* the host, changed, change_msg and the operations performed (ops).
KmStageMode(m, results, check) ==
    IF results.conf_mode THEN m
    ELSE [m EXCEPT !.changed = TRUE,
                   !.change_msg = Append(@, "updated file mode"),
                   !.sys = IF check THEN @ ELSE update_config_file_mode(@),
                   !.ops = IF check THEN @ ELSE Append(@, "chmod")]

KmStageOwnership(m, results, check) ==
    IF results.conf_user /\ results.conf_group THEN m
    ELSE [m EXCEPT !.changed = TRUE,
                   !.change_msg =
                       Append(@, IF ~results.conf_user /\ ~results.conf_group
                                 THEN "updated file user and group"
                                 ELSE IF ~results.conf_user
                                 THEN "updated file user"
                                 ELSE "updated file group"),
                   !.sys = IF check THEN @ ELSE update_config_file_ownership(@),
                   !.ops = IF check THEN @ ELSE Append(@, "chown")]

KmStageHeader(m, results, check) ==
    IF results.conf_header THEN m
    ELSE [m EXCEPT !.changed = TRUE,
                   !.change_msg = Append(@, "updated header"),
                   !.sys = IF check THEN @ ELSE update_config_file_header(@),
                   !.ops = IF check THEN @ ELSE Append(@, "update_config_file_header")]

KmStageContents(m, results, modules, check) ==
    LET content_modules == {x \in Names(modules) : ~results.conf_contents[x]}
    IN IF content_modules = {} THEN m
       ELSE [m EXCEPT !.changed = TRUE,
                      !.change_msg = Append(@, "synchronized modules"),
                      !.content_modules = content_modules,
                      !.sys = IF check THEN @
                              ELSE update_config_file_contents(@, modules),
                      !.ops = IF check THEN @
                              ELSE Append(@, "update_config_file_contents")]

KmStageUnload(m, results, modules, check, fault) ==
    LET to_unload == {x \in Names(modules) : ~results.module_unloaded[x]}
    IN IF to_unload = {} THEN m
       ELSE [m EXCEPT !.changed = TRUE,
                      !.change_msg = Append(@, "unloaded modules"),
                      !.to_unload = to_unload,
                      !.sys = IF check THEN @ ELSE unload_modules(@, to_unload, fault),
                      !.ops = IF check THEN @ ELSE Append(@, "modprobe -r")]

\* main of configure_filesystem_kernel_modules.  After the stages, a run
\* with a skip notice evaluates f"{skip_msg}; {final_msg}": final_msg is a
\* local name that was never bound, so Python raises UnboundLocalError and
\* the module ends without a result.
km_main(s, modules0, check, fault) ==
    LET flt == filter_modules(s, modules0)
        modules == flt.modules
        results == km_validate_current_state(s, modules)
        base == [KmNoRun EXCEPT
                   !.module = "configure_filesystem_kernel_modules",
                   !.check_mode = check, !.modules = modules0, !.fault = fault]
    IN IF flt.exit
       THEN [sys |-> s,
             res |-> [base EXCEPT !.skipped = TRUE, !.msgs = <<SkipNotice>>]]
       ELSE IF ~results.conf_exists
       THEN LET s1 == IF check THEN s ELSE create_config_file(s, modules)
            IN [sys |-> s1,
                res |-> [base EXCEPT
                           !.changed = TRUE,
                           !.msgs = <<"Created config file with required settings.">>,
                           !.ops = IF check THEN <<>> ELSE <<"create_config_file">>,
                           !.state = results,
                           !.validation_results =
                               IF check THEN results
                               ELSE km_validate_current_state(s1, modules)]]
       ELSE LET m0 == [sys |-> s, changed |-> FALSE, change_msg |-> <<>>,
                       content_modules |-> {}, to_unload |-> {}, ops |-> <<>>]
                m1 == KmStageMode(m0, results, check)
                m2 == KmStageOwnership(m1, results, check)
                m3 == KmStageHeader(m2, results, check)
                m4 == KmStageContents(m3, results, modules, check)
                m5 == KmStageUnload(m4, results, modules, check, fault)
                ran == [base EXCEPT !.state = results, !.ops = m5.ops,
                                    !.content_modules = m5.content_modules,
                                    !.to_unload = m5.to_unload]
            IN IF flt.skip_msg # ""
               THEN [sys |-> m5.sys,
                     res |-> [ran EXCEPT !.failed = "UnboundLocalError"]]
               ELSE [sys |-> m5.sys,
                     res |-> [ran EXCEPT
                                !.changed = m5.changed,
                                !.msgs = IF m5.changed THEN m5.change_msg
                                         ELSE <<"File matches specification">>,
                                !.validation_results =
                                    IF m5.changed /\ ~check
                                    THEN km_validate_current_state(m5.sys, modules)
                                    ELSE results]]

(***************************************************************************)
(* The hosts and parameters the editor is run on, and its specification:   *)
(* a run of the module, and a module being loaded by someone else.         *)
(***************************************************************************)
ModuleLists ==
    {<<cramfs>>, <<hfs>>, <<hfsplus>>, <<hfs, hfsplus>>, <<hfsplus, hfs>>,
     <<squashfs>>, <<squashfs, cramfs>>, <<hfs, squashfs>>}

LocalComment == <<Tok("# local settings")>>
OptionsLine(module_name) == <<Tok("options"), module_name, Tok("debug=1")>>

ConfFiles ==
    {<<>>,
     <<FILE_HEADER>>,
     <<FILE_HEADER>> \o Directives(<<cramfs>>),
     <<FILE_HEADER>> \o Directives(<<hfsplus>>),
     <<FILE_HEADER>> \o Directives(<<hfs, hfsplus>>),
     <<FILE_HEADER, install_line(squashfs), OptionsLine(cramfs)>>,
     <<install_line(hfs)>>,
     <<LocalComment, OptionsLine(hfs), blacklist_line(cramfs)>>}

LoadedSets == {{}, {cramfs}, {hfs, squashfs}}

KmHosts ==
    {[exists |-> FALSE, mode_ok |-> FALSE, user_ok |-> FALSE, group_ok |-> FALSE,
      lines |-> <<>>, eof_nl |-> TRUE, loaded |-> loaded,
      squashfs_in_use |-> in_use, squashfs_builtin |-> builtin] :
        loaded \in LoadedSets, in_use \in BOOLEAN, builtin \in BOOLEAN}
    \cup
    {[exists |-> TRUE, mode_ok |-> mode_ok, user_ok |-> user_ok,
      group_ok |-> group_ok, lines |-> lines, eof_nl |-> eof_nl,
      loaded |-> loaded, squashfs_in_use |-> in_use,
      squashfs_builtin |-> builtin] :
        mode_ok \in BOOLEAN, user_ok \in BOOLEAN, group_ok \in BOOLEAN,
        lines \in ConfFiles, eof_nl \in BOOLEAN, loaded \in LoadedSets,
        in_use \in BOOLEAN, builtin \in BOOLEAN}

\* An empty file has no last line to leave unterminated.
KmHostOk(h) == h.lines = <<>> => h.eof_nl

InitKm ==
    /\ params \in {[modules |-> ml] : ml \in ModuleLists}
    /\ sys \in {h \in KmHosts : KmHostOk(h)}
    /\ last = KmNoRun
    /\ tick = 0

KmFaults(s, modules, check) ==
    {"none"} \cup
    (IF Has(km_main(s, modules, check, "none").res.ops, "modprobe -r")
     THEN {"modprobe"} ELSE {})

RunConfigureFilesystemKernelModules ==
    \E check \in BOOLEAN :
        \E fault \in KmFaults(sys, params.modules, check) :
            LET r == km_main(sys, params.modules, check, fault)
            IN /\ sys' = r.sys
               /\ last' = r.res
               /\ tick' = 1 - tick
               /\ UNCHANGED params

\* One of the modules the caller wants disabled is loaded again.
LoadModule ==
    \E m \in Names(params.modules) :
        /\ m \notin sys.loaded
        /\ sys' = [sys EXCEPT !.loaded = @ \cup {m}]
        /\ last' = KmNoRun
        /\ UNCHANGED <<params, tick>>

NextKm == RunConfigureFilesystemKernelModules \/ LoadModule

SpecKm == InitKm /\ [][NextKm]_vars

Km(r) == r.module = "configure_filesystem_kernel_modules"

(***************************************************************************)
(* C22.  squashfs handling of the kernel-module editor: when squashfs is   *)
(* asked for while it is in use (a /snap/ mount) or built into the kernel, *)
(* a run with other modules in the list leaves squashfs alone (no line for *)
(* it added, not unloaded), configures the other modules, and ends with a  *)
(* normal result, never an error, whose message includes the skip notice;  *)
(* a run asked for squashfs only changes nothing and reports               *)
(* changed = false.                                                        *)
(***************************************************************************)
SquashfsSkipped(s, modules) ==
    /\ squashfs \in Names(modules)
    /\ s.squashfs_in_use \/ s.squashfs_builtin

Others(modules) == Names(modules) \ {squashfs}

Configured(s, module_name) ==
    /\ s.exists
    /\ install_line(module_name) \in LinesOf(s.lines)
    /\ blacklist_line(module_name) \in LinesOf(s.lines)

C22_SquashfsHandling ==
    [][(RunStep /\ Km(last') /\ SquashfsSkipped(sys, params.modules))
        => IF Others(params.modules) = {}
           THEN /\ Ok(last') /\ ~last'.changed
                /\ sys' = sys
           ELSE /\ Ok(last')
                /\ Has(last'.msgs, SkipNotice)
                /\ \A l \in LinesOf(sys'.lines) \ LinesOf(sys.lines) :
                        ~Mentions(l, squashfs)
                /\ squashfs \in sys.loaded => squashfs \in sys'.loaded
                /\ ~last'.check_mode
                        => \A m \in Others(params.modules) : Configured(sys', m)]_vars

(***************************************************************************)
(* C28.  Convergence of the kernel-module editor: whatever the module      *)
(* list, also when one name is part of another (hfs and hfsplus), the run  *)
(* that follows a successful apply run with the same parameters finds      *)
(* conf_contents true for every module, reports changed = false and does   *)
(* not write the configuration file.                                       *)
(***************************************************************************)
FileWrites ==
    {"create_config_file", "update_config_file_header",
     "update_config_file_contents"}

SuccessfulApply(r) ==
    Km(r) /\ ~r.check_mode /\ Ok(r) /\ ~r.skipped /\ r.fault = "none"

C28_EditorConvergence ==
    [][(RunStep /\ SuccessfulApply(last) /\ Km(last') /\ last'.fault = "none")
        => /\ Ok(last')
           /\ \A m \in DOMAIN last'.state.conf_contents :
                    last'.state.conf_contents[m]
           /\ ~last'.changed
           /\ \A i \in 1..Len(last'.ops) : last'.ops[i] \notin FileWrites
           /\ sys'.lines = sys.lines]_vars

=============================================================================
